---- MODULE Spec2Model ----
(***************************************************************************)
(* csv-transformer: the row transformation pipeline of transformCsv and    *)
(* transformCsvFile (src/index.js) and the skipIfAnyEmptyProcessor builder. *)
(* Records are ordered mappings: sequences of <<name, value>> pairs with   *)
(* distinct names, in property insertion order.                            *)
(***************************************************************************)
EXTENDS Integers, Sequences, FiniteSets, TLC

\* Largest number of decoded input records of one run.
MaxRows == 2

---------------------------------------------------------------------------
\* JavaScript values of the model

\* Field values are strings; the two non-string field values are marked.
Undefined == "<undefined>"
Null == "<null>"

\* Row-level values: an object with its own properties f, the value
\* undefined, and the outcome of a call that raised a fault.
Obj(f) == [t |-> "object", f |-> f]
UndefinedValue == [t |-> "undefined", f |-> <<>>]
Thrown == [t |-> "thrown", f |-> <<>>]

Range(s) == {s[n] : n \in 1..Len(s)}

\* Names of the own properties of a record, in insertion order.
Keys(f) == [n \in 1..Len(f) |-> f[n][1]]

Has(f, k) == \E n \in 1..Len(f) : f[n][1] = k

\* row[k]: the value of the property, undefined when there is none.
Get(f, k) ==
    IF Has(f, k) THEN f[CHOOSE n \in 1..Len(f) : f[n][1] = k][2] ELSE Undefined

\* An assignment that leaves an existing property as it is.
PutIfAbsent(f, k, v) == IF Has(f, k) THEN f ELSE Append(f, <<k, v>>)

\* newRow[k] = v: an existing property keeps its place, a new one goes last.
Put(f, k, v) ==
    IF Has(f, k)
    THEN [n \in 1..Len(f) |-> IF f[n][1] = k THEN <<k, v>> ELSE f[n]]
    ELSE Append(f, <<k, v>>)

\* Object.assign(target, source)
RECURSIVE ObjectAssign(_, _)
ObjectAssign(target, source) ==
    IF source = <<>> THEN target
    ELSE ObjectAssign(Put(target, Head(source)[1], Head(source)[2]), Tail(source))

\* for (const key in value): the keys of an object; no iteration on undefined.
ForIn(value) == IF value.t = "object" THEN Keys(value.f) ELSE <<>>

\* !v on a field value
Falsy(v) == v \in {Undefined, Null, ""}

\* A default that is applied to undefined only.
UndefinedOrEmpty(v) == IF v = Undefined THEN "" ELSE v

\* v ?? ""
NullishOrEmpty(v) == IF v \in {Undefined, Null} THEN "" ELSE v

\* String.prototype.trim on the strings of the model.
Trim(v) ==
    CASE v = " " -> ""
      [] v = " 25 " -> "25"
      [] OTHER -> v

---------------------------------------------------------------------------
\* The global column set: a Set of names, kept in insertion order

\* add that moves a name already present to the end of the order.
SetAddMovingLast(cols, k) == Append(SelectSeq(cols, LAMBDA x : x # k), k)

\* columnNames.add(key)
SetAdd(cols, k) == IF k \in Range(cols) THEN cols ELSE Append(cols, k)

\* for (const key in value) columnNames.add(key)
RECURSIVE AddKeys(_, _)
AddKeys(cols, keys) ==
    IF keys = <<>> THEN cols ELSE AddKeys(SetAdd(cols, Head(keys)), Tail(keys))

\* columnNames.delete(k)
SetDelete(cols, k) == SelectSeq(cols, LAMBDA x : x # k)

---------------------------------------------------------------------------
\* removeColumns patterns

\* The characters of the column names of the model.
Chars(name) ==
    CASE name = "Name" -> <<"N", "a", "m", "e">>
      [] name = "Age" -> <<"A", "g", "e">>
      [] name = "Status" -> <<"S", "t", "a", "t", "u", "s">>
      [] name = "temp_x" -> <<"t", "e", "m", "p", "_", "x">>
      [] name = "temp_y" -> <<"t", "e", "m", "p", "_", "y">>
      [] OTHER -> <<>>

StringPattern(name) ==
    [t |-> "string", name |-> name, source |-> <<>>, anchored |-> FALSE, global |-> FALSE]
\* /source/ or /^source/, with or without the g flag
RegExpPattern(source, anchored, global) ==
    [t |-> "regexp", name |-> "", source |-> source, anchored |-> anchored, global |-> global]
\* a pattern that is neither a string nor a RegExp
OtherPattern ==
    [t |-> "other", name |-> "", source |-> <<>>, anchored |-> FALSE, global |-> FALSE]

\* The pattern's source matches the characters s at the 0-based index j.
MatchAt(re, s, j) ==
    /\ j + Len(re.source) <= Len(s)
    /\ re.anchored => j = 0
    /\ \A n \in 1..Len(re.source) : s[j + n] = re.source[n]

\* pattern.test(value) with the RegExp's lastIndex before the call: the
\* search starts at lastIndex for a global RegExp and at 0 otherwise; a
\* global RegExp leaves lastIndex at the end of the match, or at 0 when
\* nothing matched.
RegExpTest(re, value, lastIndex) ==
    LET s == Chars(value)
        start == IF re.global THEN lastIndex ELSE 0
        found == {j \in start..Len(s) : MatchAt(re, s, j)}
        first == CHOOSE j \in found : \A m \in found : j <= m
    IN  IF found = {}
        THEN [matched |-> FALSE, lastIndex |-> IF re.global THEN 0 ELSE lastIndex]
        ELSE [matched |-> TRUE,
              lastIndex |-> IF re.global THEN first + Len(re.source) ELSE lastIndex]

\* columnNames.forEach(value => { if (pattern.test(value)) columnNames.delete(value) })
\* over the names `todo` still to visit.
RECURSIVE ForEachTestDelete(_, _, _, _)
ForEachTestDelete(re, cols, todo, lastIndex) ==
    IF todo = <<>> THEN cols
    ELSE LET r == RegExpTest(re, Head(todo), lastIndex)
         IN  ForEachTestDelete(re,
                 IF r.matched THEN SetDelete(cols, Head(todo)) ELSE cols,
                 Tail(todo), r.lastIndex)

\* One iteration of the loop over removeColumns.
ApplyPattern(cols, pattern) ==
    CASE pattern.t = "string" -> SetDelete(cols, pattern.name)
      [] pattern.t = "regexp" -> ForEachTestDelete(pattern, cols, cols, 0)
      [] OTHER -> cols

---------------------------------------------------------------------------
\* skipIfAnyEmptyProcessor(headers), in its two versions

\* headers.some(h => !row[h] || row[h].trim() === '')
SkipConditionA(headers, row) ==
    IF \E n \in 1..Len(headers) :
           Falsy(Get(row, headers[n])) \/ Trim(Get(row, headers[n])) = ""
    THEN "truthy" ELSE "falsy"

\* finalData: () => {}  -- a block body with no return
SkipFinalDataA == UndefinedValue

\* headers.some(h => row[h] === null || row[h].trim() === ''): calling trim
\* on the undefined value of a missing field raises a TypeError.
RECURSIVE SkipConditionB(_, _)
SkipConditionB(headers, row) ==
    IF headers = <<>> THEN "falsy"
    ELSE LET v == Get(row, Head(headers))
         IN  IF v = Null THEN "truthy"
             ELSE IF v = Undefined THEN "thrown"
             ELSE IF Trim(v) = "" THEN "truthy"
             ELSE SkipConditionB(Tail(headers), row)

\* finalData: (row) => ({})
SkipFinalDataB == Obj(<<>>)

---------------------------------------------------------------------------
\* Column rules and special row processors

\* A column rule value: true, a function, or any other value.
CopyRule == [t |-> "true", v |-> ""]
FunctionRule == [t |-> "function", v |-> ""]
LiteralRule(v) == [t |-> "literal", v |-> v]

\* A special row processor entry: its condition is the boolean true or
\* false, a caller's function, or the condition of skipIfAnyEmptyProcessor;
\* its finalData is a caller's function or the one of skipIfAnyEmptyProcessor.
BooleanEntry(b) ==
    [condition |-> IF b THEN "true" ELSE "false", finalData |-> "function", headers |-> <<>>]
FunctionEntry == [condition |-> "function", finalData |-> "function", headers |-> <<>>]
SkipEntryA(headers) == [condition |-> "skipA", finalData |-> "skipA", headers |-> headers]
SkipEntryB(headers) == [condition |-> "skipB", finalData |-> "skipB", headers |-> headers]

\* The second argument the pipeline passes to condition, finalData and the
\* rule functions: each is called as f(row), so the parameter is undefined.
LastRowArgument(emitted) == UndefinedValue

Call(fn, at, rowIndex, last, out) ==
    [fn |-> fn, at |-> at, row |-> rowIndex, last |-> last, out |-> out]

\* The value of processor.condition for entry e: what the test of lines
\* 69-70 sees ("thrown" when the function raised a fault).
ConditionOutcome(e, row, fnOut) ==
    CASE e.condition = "true" -> "truthy"
      [] e.condition = "function" -> fnOut
      [] e.condition = "skipA" -> SkipConditionA(e.headers, row)
      [] e.condition = "skipB" -> SkipConditionB(e.headers, row)
      [] OTHER -> "falsy"

FinalDataOutcome(e, fnOut) ==
    CASE e.finalData = "skipA" -> SkipFinalDataA
      [] e.finalData = "skipB" -> SkipFinalDataB
      [] OTHER -> fnOut

\* The loop over specialRowProcessors from entry k on, for the row of index
\* rowIndex: the first entry whose condition holds returns its finalData.
RECURSIVE RunProcessors(_, _, _, _, _, _, _)
RunProcessors(procs, k, row, rowIndex, last, condOut, fdOut) ==
    IF k > Len(procs) THEN [status |-> "none", value |-> UndefinedValue, calls |-> <<>>]
    ELSE
      LET e == procs[k]
          c == ConditionOutcome(e, row, condOut[k])
          condCalls == IF e.condition \in {"true", "false"} THEN <<>>
                       ELSE <<Call("condition", k, rowIndex, last, c)>>
          fd == FinalDataOutcome(e, fdOut)
          rest == RunProcessors(procs, k + 1, row, rowIndex, last, condOut, fdOut)
      IN  CASE c = "thrown" ->
                 [status |-> "thrown", value |-> UndefinedValue, calls |-> condCalls]
            [] c = "truthy" ->
                 [status |-> IF fd = Thrown THEN "thrown" ELSE "matched",
                  value |-> fd,
                  calls |-> condCalls \o <<Call("finalData", k, rowIndex, last, fd)>>]
            [] OTHER ->
                 [status |-> rest.status, value |-> rest.value,
                  calls |-> condCalls \o rest.calls]

\* The value a rule gives newRow[name] (lines 85-90).
RuleValue(rule, name, row, fnOut) ==
    CASE rule.t = "true" -> NullishOrEmpty(Get(row, name))
      [] rule.t = "function" -> fnOut
      [] OTHER -> rule.v

\* Object.entries(columnTransformers).forEach(...) from rule n on.
RECURSIVE ApplyTransformers(_, _, _, _, _, _, _)
ApplyTransformers(rules, n, row, rowIndex, last, newRow, derOut) ==
    IF n > Len(rules) THEN [status |-> "done", f |-> newRow, calls |-> <<>>]
    ELSE
      LET name == rules[n][1]
          rule == rules[n][2]
          v == RuleValue(rule, name, row, derOut[n])
          ruleCalls == IF rule.t = "function"
                       THEN <<Call("rule", n, rowIndex, last, v)>> ELSE <<>>
          rest == ApplyTransformers(rules, n + 1, row, rowIndex, last,
                                    Put(newRow, name, v), derOut)
      IN  IF rule.t = "function" /\ v = "<thrown>"
          THEN [status |-> "thrown", f |-> newRow, calls |-> ruleCalls]
          ELSE [status |-> rest.status, f |-> rest.f, calls |-> ruleCalls \o rest.calls]

\* if (isoColumns) Object.assign(newRow, row)
SeedRow(isoColumns, row) == IF isoColumns THEN ObjectAssign(<<>>, row) ELSE <<>>

\* TransformRow with the input fields merged under a special processor's
\* record when isoColumns is set.
TransformRowMergingIso(procs, rules, isoColumns, row, rowIndex, last, condOut, fdOut, derOut) ==
    LET sp == RunProcessors(procs, 1, row, rowIndex, last, condOut, fdOut)
        tr == ApplyTransformers(rules, 1, row, rowIndex, last,
                                SeedRow(isoColumns, row), derOut)
    IN  IF sp.status = "matched" /\ isoColumns /\ sp.value.t = "object"
        THEN [sp EXCEPT !.value = Obj(ObjectAssign(row, sp.value.f))]
        ELSE IF sp.status # "none" THEN sp
        ELSE [status |-> IF tr.status = "thrown" THEN "thrown" ELSE "transformed",
              value |-> Obj(tr.f),
              calls |-> sp.calls \o tr.calls]

\* The callback of parsedData.data.map for one row: the record it returns,
\* or the fault it raises, and the calls it made.
TransformRow(procs, rules, isoColumns, row, rowIndex, last, condOut, fdOut, derOut) ==
    LET sp == RunProcessors(procs, 1, row, rowIndex, last, condOut, fdOut)
        tr == ApplyTransformers(rules, 1, row, rowIndex, last,
                                SeedRow(isoColumns, row), derOut)
    IN  IF sp.status # "none" THEN sp
        ELSE [status |-> IF tr.status = "thrown" THEN "thrown" ELSE "transformed",
              value |-> Obj(tr.f),
              calls |-> sp.calls \o tr.calls]

---------------------------------------------------------------------------
\* Texts, the codec and the file system

\* A text is CSV content, known by the records it decodes to, or the
\* characters of a file path.
CsvText(records) == [kind |-> "csv", records |-> records]
PathText == [kind |-> "path", records |-> <<>>]

\* parse(csvData, {header: true, skipEmptyLines: true}).data: a path has a
\* single line, which is taken as the header line and gives no record.
Parse(text) == IF text.kind = "csv" THEN text.records ELSE <<>>

\* Unparse given only the records that have a field.
UnparseSkippingEmpty(data, columns) ==
    [t |-> "text", data |-> SelectSeq(data, LAMBDA r : ForIn(r) # <<>>), columns |-> columns]

\* What unparse is given: the records and the explicit column list.
Unparse(data, columns) == [t |-> "text", data |-> data, columns |-> columns]
NoText == [t |-> "none", data |-> <<>>, columns |-> <<>>]
OldContent == [t |-> "old", data |-> <<>>, columns |-> <<>>]

---------------------------------------------------------------------------
\* The inputs of the model

RowJohn == <<<<"Name", "John">>, <<"Age", "25">>>>
RowJane == <<<<"Name", "Jane">>, <<"Age", " ">>, <<"temp_x", "1">>>>
RowBob == <<<<"temp_y", "2">>, <<"Name", "Bob">>>>
RowAl == <<<<"Age", Null>>, <<"Name", "Al">>>>
InputRows == {RowJohn, RowJane, RowBob, RowAl}

RowSeqs == UNION {[1..m -> InputRows] : m \in 0..MaxRows}

\* The diagnostics of a decoding: none, or that a row has too few fields.
ErrorLists == {<<>>, <<"FieldMismatch">>}

\* The outcomes of the caller's functions: a condition returns a truthy or
\* a falsy value or raises a fault, and so on.
ConditionOutcomes == {"truthy", "falsy", "thrown"}
FinalDataOutcomes == {Obj(<<<<"Status", "VIP">>, <<"Age", "0">>>>), Obj(<<>>), Thrown}
RuleOutcomes == {"JOHN", "<thrown>"}

\* The column rules of a call: no rule, a Copy of an input field, and rules
\* of two kinds in either order ("Status" is no input field).
ColumnTransformerSets ==
    {<<>>,
     <<<<"Age", CopyRule>>>>,
     <<<<"Status", LiteralRule("Active")>>, <<"Age", FunctionRule>>>>,
     <<<<"Age", LiteralRule("Active")>>, <<"Status", CopyRule>>>>}

\* The special row processors of a call.
ProcessorLists ==
    {<<>>,
     <<FunctionEntry, BooleanEntry(TRUE)>>,
     <<BooleanEntry(FALSE), FunctionEntry>>,
     <<SkipEntryA(<<"Age">>)>>,
     <<SkipEntryB(<<"Age">>)>>}

TempRegExp(global) == RegExpPattern(<<"t", "e", "m", "p", "_">>, TRUE, global)
RemoveLists ==
    {<<>>, <<StringPattern("Age"), TempRegExp(FALSE)>>, <<TempRegExp(TRUE)>>,
     <<StringPattern("Zip"), OtherPattern>>}

---------------------------------------------------------------------------
\* The state

VARIABLES
    entry,              \* the exported function that was called
    inputCsv,           \* its first argument: "content" or "path"
    rows,               \* the records of the CSV content (passed, or in the file)
    columnTransformers, \* the rules, in the mapping's order
    options,            \* the caller's options
    decodeErrors,       \* the diagnostics the codec reports for the content
    pc,                 \* where the call is
    received,           \* the options transformCsv received
    csvSource,          \* how csvData was obtained: "file" or "raw"
    parsedData,         \* parsedData.data
    transformedData,    \* the records the map callback has returned
    columnNames,        \* the global column set
    patternIndex,       \* the removeColumns patterns applied so far
    deleted,            \* the names the patterns have deleted from columnNames
    result,             \* what transformCsv returned
    outputFile,         \* the content of the file at outputPath
    warnings,           \* what console.warn was given
    calls               \* the calls made to the conditions, finalData and rules

vars == <<entry, inputCsv, rows, columnTransformers, options, decodeErrors, pc, received,
          csvSource, parsedData, transformedData, columnNames, patternIndex, deleted,
          result, outputFile, warnings, calls>>

args == <<entry, inputCsv, rows, columnTransformers, options, decodeErrors>>

Options(isFilePath, procs, iso, remove) ==
    [isFilePath |-> isFilePath, specialRowProcessors |-> procs,
     isoColumns |-> iso, removeColumns |-> remove]

InitCall ==
    /\ pc = IF entry = "transformCsvFile" THEN "callFile" ELSE "call"
    /\ received = options
    /\ csvSource = "none"
    /\ parsedData = <<>>
    /\ transformedData = <<>>
    /\ columnNames = <<>>
    /\ patternIndex = 0
    /\ deleted = {}
    /\ result = NoText
    /\ outputFile = OldContent
    /\ warnings = <<>>
    /\ calls = <<>>

\* The calls transformCsv(content, rules, options).
Init ==
    /\ entry = "transformCsv"
    /\ inputCsv = "content"
    /\ rows \in RowSeqs
    /\ decodeErrors \in ErrorLists
    /\ columnTransformers \in ColumnTransformerSets
    /\ \E p \in ProcessorLists, iso \in BOOLEAN, rm \in RemoveLists :
          options = Options("absent", p, iso, rm)
    /\ InitCall

\* The calls transformCsvFile(path, out, rules, options), with isFilePath
\* absent from the options, or in them as undefined, true or false.
InitFile ==
    /\ entry = "transformCsvFile"
    /\ inputCsv = "path"
    /\ rows \in RowSeqs
    /\ decodeErrors \in ErrorLists
    /\ columnTransformers \in
           {<<>>, <<<<"Status", LiteralRule("Active")>>, <<"Age", FunctionRule>>>>}
    /\ \E f \in {"absent", "undefined", "true", "false"},
          p \in {<<>>, <<BooleanEntry(FALSE), FunctionEntry>>, <<SkipEntryB(<<"Age">>)>>},
          rm \in {<<>>, <<StringPattern("Age"), TempRegExp(FALSE)>>} :
          options = Options(f, p, FALSE, rm)
    /\ InitCall

---------------------------------------------------------------------------
\* The operations

\* {isFilePath: true, ...options}: a key of options replaces the default.
SpreadIsFilePath(opts) ==
    [opts EXCEPT !.isFilePath = IF opts.isFilePath = "absent" THEN "true" ELSE opts.isFilePath]

\* const {isFilePath = false} = options
IsFilePath(opts) == opts.isFilePath = "true"

\* transformCsvFile, lines 133-136: the call of transformCsv
TransformCsvFile ==
    /\ pc = "callFile"
    /\ received' = SpreadIsFilePath(options)
    /\ pc' = "call"
    /\ UNCHANGED <<args, csvSource, parsedData, transformedData, columnNames,
                   patternIndex, deleted, result, outputFile, warnings, calls>>

\* if (parsedData.errors && parsedData.errors.length > 0) console.warn(...)
Warn(log, errors) == IF Len(errors) > 0 THEN Append(log, errors) ELSE log

\* transformCsv that gives up when the codec reports a diagnostic.
TransformCsvStrict ==
    /\ pc = "call"
    /\ csvSource' = IF IsFilePath(received) THEN "file" ELSE "raw"
    /\ parsedData' = Parse(IF IsFilePath(received) \/ inputCsv = "content"
                           THEN CsvText(rows) ELSE PathText)
    /\ warnings' = Warn(warnings, decodeErrors)
    /\ pc' = IF Len(decodeErrors) > 0 THEN "aborted" ELSE "run"
    /\ UNCHANGED <<args, received, transformedData, columnNames, patternIndex,
                   deleted, result, outputFile, calls>>

\* transformCsv, lines 41-61: resolve the content, decode it, and warn of
\* the diagnostics of the decoding.
TransformCsv ==
    /\ pc = "call"
    /\ csvSource' = IF IsFilePath(received) THEN "file" ELSE "raw"
    /\ parsedData' = Parse(IF IsFilePath(received) \/ inputCsv = "content"
                           THEN CsvText(rows) ELSE PathText)
    /\ warnings' = Warn(warnings, decodeErrors)
    /\ pc' = "run"
    /\ UNCHANGED <<args, received, transformedData, columnNames, patternIndex,
                   deleted, result, outputFile, calls>>

\* A callback that catches the faults of the caller's functions.
PropagatesNever(status) == FALSE

\* A fault raised in the map callback is not caught: it leaves the callback,
\* map and transformCsv.
Propagates(status) == status = "thrown"

\* One call of the map callback, lines 63-98, for the next row.
MapRow ==
    /\ pc = "run"
    /\ Len(transformedData) < Len(parsedData)
    /\ LET rowIndex == Len(transformedData) + 1
           procs == received.specialRowProcessors
       IN  \E condOut \in [1..Len(procs) -> ConditionOutcomes],
              fdOut \in FinalDataOutcomes,
              derOut \in [1..Len(columnTransformers) -> RuleOutcomes] :
             /\ \A k \in 1..Len(procs) :
                    procs[k].condition # "function" => condOut[k] = "falsy"
             /\ \A n \in 1..Len(columnTransformers) :
                    columnTransformers[n][2].t # "function" => derOut[n] = "JOHN"
             /\ LET r == TransformRow(procs, columnTransformers, received.isoColumns,
                                      parsedData[rowIndex], rowIndex,
                                      LastRowArgument(transformedData),
                                      condOut, fdOut, derOut)
                IN  /\ calls' = calls \o r.calls
                    /\ IF Propagates(r.status)
                       THEN /\ pc' = "aborted"
                            /\ UNCHANGED <<transformedData, columnNames>>
                       ELSE /\ pc' = pc
                            /\ transformedData' = Append(transformedData, r.value)
                            /\ columnNames' = AddKeys(columnNames, ForIn(r.value))
    /\ UNCHANGED <<args, received, csvSource, parsedData, patternIndex, deleted,
                   result, outputFile, warnings>>

\* One iteration of the loop over removeColumns, lines 100-108.
RemoveColumns ==
    /\ pc = "run"
    /\ Len(transformedData) = Len(parsedData)
    /\ patternIndex < Len(received.removeColumns)
    /\ patternIndex' = patternIndex + 1
    /\ columnNames' = ApplyPattern(columnNames, received.removeColumns[patternIndex + 1])
    /\ deleted' = deleted \cup (Range(columnNames) \ Range(columnNames'))
    /\ UNCHANGED <<args, pc, received, csvSource, parsedData, transformedData,
                   result, outputFile, warnings, calls>>

\* Line 111: serialize and return.
Return ==
    /\ pc = "run"
    /\ Len(transformedData) = Len(parsedData)
    /\ patternIndex = Len(received.removeColumns)
    /\ result' = Unparse(transformedData, columnNames)
    /\ pc' = IF entry = "transformCsvFile" THEN "write" ELSE "done"
    /\ UNCHANGED <<args, received, csvSource, parsedData, transformedData,
                   columnNames, patternIndex, deleted, outputFile, warnings, calls>>

\* transformCsvFile, line 137
WriteFile ==
    /\ pc = "write"
    /\ outputFile' = result
    /\ pc' = "done"
    /\ UNCHANGED <<args, received, csvSource, parsedData, transformedData,
                   columnNames, patternIndex, deleted, result, warnings, calls>>

\* A call of transformCsv
Next == TransformCsv \/ MapRow \/ RemoveColumns \/ Return

Spec == Init /\ [][Next]_vars

\* A call of transformCsvFile
NextFile == TransformCsvFile \/ TransformCsv \/ MapRow \/ RemoveColumns \/ Return \/ WriteFile

SpecFile == InitFile /\ [][NextFile]_vars

---------------------------------------------------------------------------
\* What the properties speak of

\* The calls made while processing the row of index rowIndex.
CallsOfRow(rowIndex) == {n \in 1..Len(calls) : calls[n].row = rowIndex}

IsThrown(c) ==
    CASE c.fn = "condition" -> c.out = "thrown"
      [] c.fn = "finalData" -> c.out = Thrown
      [] OTHER -> c.out = "<thrown>"

\* The entries that match the row: the condition is the boolean true, or it
\* is a function that was called for the row and returned a truthy value.
Matching(rowIndex) ==
    {k \in 1..Len(received.specialRowProcessors) :
        \/ received.specialRowProcessors[k].condition = "true"
        \/ \E n \in CallsOfRow(rowIndex) :
              calls[n].fn = "condition" /\ calls[n].at = k /\ calls[n].out = "truthy"}

FirstMatching(rowIndex) ==
    CHOOSE k \in Matching(rowIndex) : \A j \in Matching(rowIndex) : k <= j

\* The row was emitted by the normal transformation.
Transformed(rowIndex) ==
    /\ rowIndex \in 1..Len(transformedData)
    /\ Matching(rowIndex) = {}

\* The row was emitted by a special row processor.
Special(rowIndex) ==
    /\ rowIndex \in 1..Len(transformedData)
    /\ Matching(rowIndex) # {}

Returned == result.t = "text"

---------------------------------------------------------------------------
\* C1: for every row index i > 0 the lastOutputRow argument of every rule,
\* condition and finalData called for row i is the record emitted for row
\* i-1, and for row 0 the argument is absent.
LastRowChaining ==
    \A n \in 1..Len(calls) :
        calls[n].last = IF calls[n].row = 1 THEN UndefinedValue
                        ELSE transformedData[calls[n].row - 1]

\* C2: on a row that some special row processor matches, the output record
\* is the value finalData of the first matching entry returned, with nothing
\* merged in, and no later entry and no column rule is evaluated.
SpecialProcessorPrecedence ==
    /\ \A i \in 1..Len(transformedData) :
          Matching(i) # {} =>
              LET k == FirstMatching(i)
                  fd == {n \in CallsOfRow(i) : calls[n].fn = "finalData"}
              IN  /\ \A n \in CallsOfRow(i) :
                         /\ calls[n].fn # "rule"
                         /\ calls[n].at <= k
                         /\ calls[n].fn = "finalData" => calls[n].at = k
                  /\ Cardinality(fd) = 1
                  /\ \A n \in fd : transformedData[i] = calls[n].out
    /\ \A n \in 1..Len(calls) :
          calls[n].fn = "finalData" =>
              \A m \in CallsOfRow(calls[n].row) \ {n} :
                  /\ calls[m].fn = "condition"
                  /\ calls[m].at <= calls[n].at
                  /\ calls[m].at < calls[n].at => calls[m].out = "falsy"

\* C2 happens: with isoColumns and column rules, a row that two entries
\* match was emitted as the first entry's finalData gave it.
SpecialProcessorPrecedenceWitness ==
    /\ received.isoColumns
    /\ \E n \in 1..Len(columnTransformers) : columnTransformers[n][2].t = "function"
    /\ \E i \in 1..Len(transformedData) :
          /\ Cardinality(Matching(i)) = 2
          /\ transformedData[i] = Obj(<<<<"Status", "VIP">>, <<"Age", "0">>>>)

\* C3: the records handed to serialization are as many as the decoded
\* records, in the same order, whatever the rules, processors and options.
RowCountPreservation ==
    /\ Len(transformedData) <= Len(parsedData)
    /\ Returned =>
          /\ Len(result.data) = Len(parsedData)
          /\ \A i \in 1..Len(parsedData) :
                \/ /\ Special(i)
                   /\ \E n \in CallsOfRow(i) :
                         calls[n].fn = "finalData" /\ result.data[i] = calls[n].out
                \/ /\ Transformed(i)
                   /\ result.data[i].t = "object"
                   /\ received.isoColumns =>
                         \A m \in 1..Len(parsedData[i]) :
                             Has(result.data[i].f, parsedData[i][m][1])

\* C3 happens: a call returned two records of which a special processor
\* gave the first as an empty record.
RowCountPreservationWitness ==
    /\ Returned
    /\ Len(result.data) = 2
    /\ Special(1)
    /\ result.data[1] = Obj(<<>>)
    /\ Transformed(2)

---------------------------------------------------------------------------
\* The names the emitted records contributed, in the order of the rows and,
\* in a row, of its keys.
RECURSIVE Contributions(_)
Contributions(data) ==
    IF data = <<>> THEN <<>> ELSE ForIn(Head(data)) \o Contributions(Tail(data))

FirstPosition(s, x) == CHOOSE n \in 1..Len(s) : s[n] = x /\ \A m \in 1..(n - 1) : s[m] # x

\* cols holds each name once and in the order of first contribution.
InFirstContributionOrder(cols, contributed) ==
    \A p, q \in 1..Len(cols) :
        p < q => /\ cols[p] # cols[q]
                 /\ FirstPosition(contributed, cols[p]) < FirstPosition(contributed, cols[q])

\* C4: the column list passed to serialization holds a name iff an emitted
\* record has it as a key and no removeColumns pattern deleted it, once each
\* and in the order of first contribution.
ColumnOrdering ==
    /\ pc = "run" /\ patternIndex = 0 =>
          /\ Range(columnNames) = Range(Contributions(transformedData))
          /\ InFirstContributionOrder(columnNames, Contributions(transformedData))
    /\ Returned =>
          /\ Range(result.columns) = Range(Contributions(result.data)) \ deleted
          /\ InFirstContributionOrder(result.columns, Contributions(result.data))

\* C4 happens: a special processor's record and a transformed record gave
\* names, one of them twice, and a pattern deleted a name.
ColumnOrderingWitness ==
    /\ Returned
    /\ Special(1)
    /\ Transformed(2)
    /\ deleted # {}
    /\ Len(result.columns) >= 2
    /\ Len(Contributions(result.data)) > Cardinality(Range(Contributions(result.data)))

\* The pattern matches the name: the same string, or a RegExp whose source
\* occurs in the name.
PatternMatches(pattern, name) ==
    CASE pattern.t = "string" -> pattern.name = name
      [] pattern.t = "regexp" ->
             \E j \in 0..Len(Chars(name)) : MatchAt(pattern, Chars(name), j)
      [] OTHER -> FALSE

MatchesSomePattern(name) ==
    \E n \in 1..Len(received.removeColumns) : PatternMatches(received.removeColumns[n], name)

\* C5: after the removeColumns patterns were applied the column order holds
\* no name that a string pattern equals or a regex pattern matches, and holds
\* the names no pattern matches in their original order.
ColumnRemoval ==
    Returned =>
        /\ \A n \in 1..Len(result.columns) : ~MatchesSomePattern(result.columns[n])
        /\ \A x \in Range(Contributions(result.data)) :
               ~MatchesSomePattern(x) => x \in Range(result.columns)
        /\ InFirstContributionOrder(result.columns, Contributions(result.data))

\* C6: transformCsvFile reads its input from the file at inputPath whatever
\* the options hold, and writes the returned text to outputPath.
FileInputIsAPath ==
    entry = "transformCsvFile" =>
        /\ csvSource \in {"none", "file"}
        /\ pc = "done" => outputFile = result

\* C7: a fault of a rule, condition or finalData function at row i aborts
\* the call: no later row is processed, no text is returned, and the output
\* file is not written.
FaultPropagation ==
    /\ \A n \in 1..Len(calls) :
          IsThrown(calls[n]) =>
              /\ pc = "aborted"
              /\ n = Len(calls)
              /\ calls[n].row = Len(transformedData) + 1
              /\ result = NoText
              /\ outputFile = OldContent
              /\ ~ENABLED NextFile
    /\ outputFile # OldContent =>
          /\ pc = "done"
          /\ Len(transformedData) = Len(parsedData)
          /\ outputFile = Unparse(transformedData, columnNames)

\* C7 happens: transformCsvFile was aborted by a fault at the first of two
\* rows.
FaultPropagationWitness ==
    /\ entry = "transformCsvFile"
    /\ pc = "aborted"
    /\ Len(parsedData) = 2
    /\ Len(transformedData) = 0
    /\ calls # <<>>
    /\ calls[Len(calls)].fn = "rule"

RuleNames == {columnTransformers[n][1] : n \in 1..Len(columnTransformers)}

\* What the rule of index n gave for the row: the function's return value,
\* the literal, or the input field (the empty string when it has none).
RuleResult(rowIndex, n) ==
    LET name == columnTransformers[n][1]
        rule == columnTransformers[n][2]
        v == Get(parsedData[rowIndex], name)
    IN  CASE rule.t = "function" ->
                 calls[CHOOSE m \in CallsOfRow(rowIndex) :
                           calls[m].fn = "rule" /\ calls[m].at = n].out
          [] rule.t = "literal" -> rule.v
          [] OTHER -> IF v = Undefined \/ v = Null THEN "" ELSE v

\* C8: on a row no special processor matches, with isoColumns the record
\* holds every input field that no rule names, unchanged, and every rule's
\* result under the rule's name; without isoColumns its keys are the rule
\* names.
IsoColumns ==
    \A i \in 1..Len(transformedData) :
        Transformed(i) =>
            LET out == transformedData[i].f
                row == parsedData[i]
            IN  /\ transformedData[i].t = "object"
                /\ \A n \in 1..Len(columnTransformers) :
                       /\ Has(out, columnTransformers[n][1])
                       /\ Get(out, columnTransformers[n][1]) = RuleResult(i, n)
                /\ received.isoColumns =>
                       /\ \A m \in 1..Len(row) :
                              row[m][1] \notin RuleNames =>
                                  Has(out, row[m][1]) /\ Get(out, row[m][1]) = row[m][2]
                       /\ Range(Keys(out)) = Range(Keys(row)) \cup RuleNames
                /\ ~received.isoColumns => Range(Keys(out)) = RuleNames
                /\ Cardinality(Range(Keys(out))) = Len(out)

\* C8 happens: with isoColumns, a record kept an input field and has a
\* function rule's result under the name of another input field.
IsoColumnsWitness ==
    /\ received.isoColumns
    /\ \E i \in 1..Len(transformedData) :
          /\ Transformed(i)
          /\ parsedData[i] = RowJohn
          /\ Get(transformedData[i].f, "Name") = "John"
          /\ Get(transformedData[i].f, "Age") = "JOHN"

\* C9: on a row no special processor matches, the output field of a Copy
\* rule is the input field when the row has it, and the empty string
\* otherwise; it is never null or absent.
CopyRuleProperty ==
    \A i \in 1..Len(transformedData) :
        Transformed(i) =>
            \A n \in 1..Len(columnTransformers) :
                columnTransformers[n][2].t = "true" =>
                    LET c == columnTransformers[n][1]
                        out == transformedData[i].f
                        v == Get(parsedData[i], c)
                    IN  /\ Has(out, c)
                        /\ Get(out, c) \notin {Null, Undefined}
                        /\ Get(out, c) = IF Has(parsedData[i], c) /\ v # Null THEN v ELSE ""

\* C9 happens: with isoColumns, Copy rules gave the empty string for a
\* field the row has as null and the value of a field another row has.
CopyRuleWitness ==
    /\ received.isoColumns
    /\ columnTransformers = <<<<"Age", CopyRule>>>>
    /\ Len(transformedData) = 2
    /\ Transformed(1) /\ parsedData[1] = RowAl /\ Get(transformedData[1].f, "Age") = ""
    /\ Transformed(2) /\ parsedData[2] = RowJohn /\ Get(transformedData[2].f, "Age") = "25"

\* A field that is missing, null or blank.
EmptyField(row, h) == ~Has(row, h) \/ Get(row, h) \in {Null, "", " "}

SkipEntries ==
    {k \in 1..Len(received.specialRowProcessors) :
        received.specialRowProcessors[k].condition \in {"skipA", "skipB"}}

\* C10: the condition of skipIfAnyEmptyProcessor(headers) matches, without
\* a fault, iff a named field is missing, null or blank, and its finalData
\* gives a record with no field, so the matched row is emitted with no field
\* and contributes no column.
SkipIfAnyEmpty ==
    \A n \in 1..Len(calls) :
        calls[n].at \in SkipEntries =>
            LET e == received.specialRowProcessors[calls[n].at]
                row == parsedData[calls[n].row]
            IN  /\ calls[n].fn = "condition" =>
                       /\ calls[n].out # "thrown"
                       /\ calls[n].out = "truthy" <=>
                              \E h \in 1..Len(e.headers) : EmptyField(row, e.headers[h])
                /\ calls[n].fn = "finalData" =>
                       /\ calls[n].out = Obj(<<>>)
                       /\ calls[n].row <= Len(transformedData) =>
                              transformedData[calls[n].row] = Obj(<<>>)

---------------------------------------------------------------------------
\* What the caller's functions returned for a row, read from the calls.
OutcomeOf(rowIndex, fn, at, default) ==
    IF \E n \in CallsOfRow(rowIndex) : calls[n].fn = fn /\ calls[n].at = at
    THEN calls[CHOOSE n \in CallsOfRow(rowIndex) : calls[n].fn = fn /\ calls[n].at = at].out
    ELSE default

FinalDataOf(rowIndex) ==
    IF \E n \in CallsOfRow(rowIndex) : calls[n].fn = "finalData"
    THEN calls[CHOOSE n \in CallsOfRow(rowIndex) : calls[n].fn = "finalData"].out
    ELSE Thrown

\* The records and the columns of the call on the records `decoded` when
\* the decoding reports no diagnostic, the caller's functions returning
\* what they returned.
RecordsWithoutDiagnostics(decoded) ==
    [i \in 1..Len(decoded) |->
        TransformRow(received.specialRowProcessors, columnTransformers,
                     received.isoColumns, decoded[i], i, UndefinedValue,
                     [k \in 1..Len(received.specialRowProcessors) |->
                         OutcomeOf(i, "condition", k, "falsy")],
                     FinalDataOf(i),
                     [n \in 1..Len(columnTransformers) |->
                         OutcomeOf(i, "rule", n, "JOHN")]).value]

RECURSIVE ApplyPatterns(_, _)
ApplyPatterns(cols, patterns) ==
    IF patterns = <<>> THEN cols
    ELSE ApplyPatterns(ApplyPattern(cols, Head(patterns)), Tail(patterns))

ColumnsWithoutDiagnostics(decoded) ==
    ApplyPatterns(AddKeys(<<>>, Contributions(RecordsWithoutDiagnostics(decoded))),
                  received.removeColumns)

\* C11: when the decoding reports diagnostics, transformCsv warns of them
\* and then processes every decoded record as it does when there is none:
\* the same records, columns and returned text; the diagnostics never abort
\* the call.
DecodeDiagnosticsNonFatal ==
    /\ pc # "call" =>
          /\ parsedData = rows
          /\ warnings = IF decodeErrors = <<>> THEN <<>> ELSE <<decodeErrors>>
    /\ pc = "aborted" => calls # <<>> /\ IsThrown(calls[Len(calls)])
    /\ Returned =>
          result = Unparse(RecordsWithoutDiagnostics(rows), ColumnsWithoutDiagnostics(rows))

\* C11 happens: the decoding reported a diagnostic, a warning was given, and
\* the call returned the records of both rows.
DecodeDiagnosticsWitness ==
    /\ decodeErrors # <<>>
    /\ warnings # <<>>
    /\ Returned
    /\ Len(result.data) = 2
    /\ result.columns # <<>>
====
